---- MODULE Spec2Model ----
(***************************************************************************)
(* Deploy the Cat: the client's sabotage scheduler and outcome reconciler  *)
(* (client/src/App.tsx) and the server's scripted deployment narrator.     *)
(*                                                                         *)
(* Each action is one handler, timer callback or socket event, together    *)
(* with the React commit that follows it: the state updates of a handler   *)
(* are batched into one render, after which the two scheduling effects     *)
(* (App.tsx 189-219 and 303-360) run in declaration order when one of      *)
(* their dependencies changed.                                             *)
(*                                                                         *)
(* Time is abstract.  Outstanding client timers are kept in creation       *)
(* order; a timer may fire only if no timer created earlier with a delay   *)
(* that is not larger is still outstanding (CanFire).  The random attack   *)
(* delay lies in [15000, 40000) ms, so two attack timers fire in any       *)
(* order.  A message of the narrator reaches the client before the         *)
(* narrator's next emission (the cadence is 800 ms / 500 ms), and the      *)
(* completion of a session no sooner than its script lasts.                *)
(***************************************************************************)
EXTENDS Integers, Sequences, FiniteSets, TLC

\* ------------------------------------------------------------------ bounds
\* Spec: accepted deployment sessions explored.
MaxSessions == 1
\* Spec: value of the sabotages counter up to which attacks are explored.
MaxSabotages == 2
\* Spec, PipelineSpec: outstanding next-attack timers explored.
MaxAttackTimers == 2
\* PipelineSpec: accepted sessions plus sabotaged components explored.
MaxEvents == 2
\* SessionSpec, FairSessionSpec: accepted deployment sessions explored.
MaxRuns == 2
\* ScoreSpec: accepted deployment sessions explored.
MaxDeployments == 4
MaxCatEvents == 2
MaxCatTimers == 2

\* ------------------------------------------------------- program constants
StaggerMs == 1500
GraceMs == 5000
ResetDelayMs == 2000
MinAttackMs == 15000
MaxAggression == 5
SuccessPoints == 100
StreakBonus == 50
StreakThreshold == 3
FailurePenalty == 25
FixCostPerComponent == 25
MultiAttackAggression == 3
RampageAggression == 5
MultiAttackRoll == 20
RampageRoll == 10
SuccessStepCount == 9
ShortestFailureStepCount == 4
StepMs == 800
CompletionMs == 500
BaseFailurePct == 15
AggressionPenaltyPct == 5
FailureStreakPct == 2
ShakingPenaltyPct == 10
MinFailurePct == 5
MaxFailurePct == 40
BaseIntervalMs == 30000
AggressionStepMs == 4000
MaxVariationMs == 10000

Slots == {"build", "test", "deploy"}
NoSlot == "none"
\* Math.random() in hundredths: one value below 0.1, one in [0.1, 0.2), one above.
Rolls == {5, 15, 60}
\* Math.random() * 10000, in whole ms: the ends of the range and the values
\* around which the 15000 ms floor starts to apply at aggression 4 and 5.
Variations == {0, 999, 1000, 2999, 3000, MaxVariationMs - 1}
\* Lengths of the three failure scripts.
FailureStepCounts == {4, 8, 11}

VARIABLES
    componentStates,        \* [Slots -> BOOLEAN]: placed
    shakingComponents,      \* SUBSET Slots
    pendingAttacks,         \* SUBSET Slots
    isDeploymentInProgress, \* BOOLEAN
    gameStats,              \* [score, deployments, sabotages, failedDeployments, streak]
    catAggression,          \* 1..5
    sabotageTimeoutId,      \* "null", "live" (the timer flagged cur) or "stale"
    timers,                 \* outstanding client timers, in creation order
    isConnected,            \* the client's socket is connected
    outbox,                 \* deploymentStart requests emitted, not yet received
    narrator,               \* the server's simulateDeployment run
    inbox,                  \* server events in flight to the client
    willFail,               \* the outcome drawn by the last accepted startDeployment
    lastOp                  \* history: the client handler that ran last, and its branch

vars == <<componentStates, shakingComponents, pendingAttacks, isDeploymentInProgress,
          gameStats, catAggression, sabotageTimeoutId, timers, isConnected, outbox,
          narrator, inbox, willFail, lastOp>>

\* --------------------------------------------------------------- helpers
Min(a, b) == IF a < b THEN a ELSE b
Max(a, b) == IF a > b THEN a ELSE b

RemoveAt(s, i) == SubSeq(s, 1, i - 1) \o SubSeq(s, i + 1, Len(s))

PlacedSet(cs) == {s \in Slots : cs[s]}

AllPlaced(cs) == \A s \in Slots : cs[s]

NonePlaced == [s \in Slots |-> FALSE]

\* A client timer.  kind: "attack" (next-attack timer), "warn" (staggered
\* startComponentWarning call), "grace" (5000 ms grace period), "reset"
\* (2000 ms post-completion reset); "session" stands in the same order for
\* the deploymentComplete event of a request emitted (first: the request
\* forces a failure), which arrives no sooner than the script lasts.
\* placed/aggr: the componentStates and
\* catAggression captured by an attack timer's closure.  first: set by
\* scheduleFirstAttack (one shot) rather than scheduleNextSabotage (re-arms).
\* cur: sabotageTimeoutId holds this timer's handle.  fixed (history): an
\* emergency fix was accepted since this warning started.  ripe (history):
\* the least delay of this attack timer has elapsed since it was set.
Timer(kind, slot, idx, placed, aggr, first, cur) ==
    [kind |-> kind, slot |-> slot, idx |-> idx, placed |-> placed, aggr |-> aggr,
     first |-> first, cur |-> cur, fixed |-> FALSE, ripe |-> FALSE]

AttackTimer(cs, aggr, first) == Timer("attack", NoSlot, 0, PlacedSet(cs), aggr, first, TRUE)

WarnTimer(slot, idx) == Timer("warn", slot, idx, {}, 0, FALSE, FALSE)

GraceTimer(slot) == Timer("grace", slot, 0, {}, 0, FALSE, FALSE)

ResetTimer == Timer("reset", NoSlot, 0, {}, 0, FALSE, FALSE)

SessionMark(forceFailure) == Timer("session", NoSlot, 0, {}, 0, forceFailure, FALSE)

\* duration of simulateDeployment for a script of n steps.
ScriptMs(n) == n * StepMs + CompletionMs

\* nextInterval of scheduleFirstAttack for catAggression aggr and
\* randomVariation r.
FirstAttackInterval(aggr, r) ==
    Max(MinAttackMs, BaseIntervalMs - (aggr - 1) * AggressionStepMs + r)

\* (variant: Math.max(15000, ...) left out)
GetIntervalTimeUnfloored(aggr, r) == BaseIntervalMs - (aggr - 1) * AggressionStepMs + r

\* getIntervalTime() for catAggression aggr and randomVariation r.
GetIntervalTime(aggr, r) ==
    Max(MinAttackMs, BaseIntervalMs - (aggr - 1) * AggressionStepMs + r)

\* The delay an attack timer was set with, its randomVariation being r.
AttackInterval(t, r) ==
    IF t.first THEN FirstAttackInterval(t.aggr, r) ELSE GetIntervalTime(t.aggr, r)

\* The delay of a timer in ms (for an attack timer and a session: the least
\* possible one).
Delay(t) ==
    CASE t.kind = "warn" -> t.idx * StaggerMs
      [] t.kind = "reset" -> ResetDelayMs
      [] t.kind = "grace" -> GraceMs
      [] t.kind = "session" -> ScriptMs(IF t.first THEN ShortestFailureStepCount
                                                   ELSE SuccessStepCount)
      [] OTHER -> AttackInterval(t, 0)

\* x was created before y: x certainly fires first.
MustFireBefore(x, y) == x.kind \notin {"attack", "session"} /\ Delay(x) <= Delay(y)

CanFire(i) == \A j \in 1..(i - 1) : ~MustFireBefore(timers[j], timers[i])

AttackTimers(tms) == {i \in DOMAIN tms : tms[i].kind = "attack"}

\* setSabotageTimeoutId(x): no timer but the new one is the stored handle.
Uncur(tms) == [i \in DOMAIN tms |-> [tms[i] EXCEPT !.cur = FALSE]]

\* clearTimeout(sabotageTimeoutId), the stored handle being that of a live timer.
ClearCur(tms) == SelectSeq(tms, LAMBDA t : ~t.cur)

\* ------------------------------------------------------- scheduling effects
\* (variant: scheduling only once the pipeline is full)
SchedulingActiveWhenFull(cs, dep) == AllPlaced(cs) /\ ~dep

SchedulingActive(cs, dep) == PlacedSet(cs) # {} /\ ~dep

\* useEffect "restart cat timer": scheduleFirstAttack when components are
\* placed, no deployment runs and no handle is stored.
RestartCatTimerEffect(cs, dep, aggr, sid, tms) ==
    IF SchedulingActive(cs, dep) /\ sid = "null"
    THEN [timers |-> Append(tms, AttackTimer(cs, aggr, TRUE)), sid |-> "live"]
    ELSE [timers |-> tms, sid |-> sid]

\* useEffect "more controlled cat AI": clears the handle of the render it
\* runs in (sidRender), then scheduleNextSabotage when scheduling is active.
\* st is the state left by the first effect, which ran before it in the same
\* commit.  The effect's cleanup clears the handle that the body of the same
\* run has cleared already, so it clears nothing.
ScheduleNextSabotageEffect(cs, dep, aggr, sidRender, st) ==
    LET cleared == IF sidRender = "live" THEN ClearCur(st.timers) ELSE st.timers
        sidKept == IF sidRender = "live" THEN "stale" ELSE st.sid
    IN  IF SchedulingActive(cs, dep)
        THEN [timers |-> Append(Uncur(cleared), AttackTimer(cs, aggr, FALSE)),
              sid |-> "live"]
        ELSE [timers |-> cleared, sid |-> sidKept]

\* The commit after a handler: cs, dep, aggr, sid are the committed values,
\* tms the timers the handler left; deps2 says that componentStates,
\* isDeploymentInProgress or catAggression changed (the dependencies of the
\* second effect), deps1 that one of these or sabotageTimeoutId changed.
RunEffects(cs, dep, aggr, sid, tms, deps1, deps2) ==
    LET st1 == IF deps1 THEN RestartCatTimerEffect(cs, dep, aggr, sid, tms)
                        ELSE [timers |-> tms, sid |-> sid]
    IN  IF deps2 THEN ScheduleNextSabotageEffect(cs, dep, aggr, sid, st1) ELSE st1

\* ------------------------------------------------------------ narrator
\* No simulateDeployment run.
IdleNarrator == [active |-> FALSE, shouldFail |-> FALSE, total |-> 0, step |-> 0,
                 live |-> FALSE]

\* A deploymentLog event; step 0 is the acknowledgement, which carries no step.
LogEvent(step, total) ==
    [type |-> "deploymentLog", step |-> step, totalSteps |-> total, success |-> FALSE]

CompleteEvent(success, total) ==
    [type |-> "deploymentComplete", step |-> 0, totalSteps |-> total, success |-> success]

\* socket.emit on the server: an event for a socket that has disconnected is dropped.
Emit(box, live, event) == IF live THEN Append(box, event) ELSE box

\* -------------------------------------------------------------- Init
Init ==
    /\ componentStates = NonePlaced
    /\ shakingComponents = {}
    /\ pendingAttacks = {}
    /\ isDeploymentInProgress = FALSE
    /\ gameStats = [score |-> 0, deployments |-> 0, sabotages |-> 0,
                    failedDeployments |-> 0, streak |-> 0]
    /\ catAggression = 1
    /\ sabotageTimeoutId = "null"
    /\ timers = <<>>
    /\ isConnected = FALSE
    /\ outbox = <<>>
    /\ narrator = IdleNarrator
    /\ inbox = <<>>
    /\ willFail = FALSE
    /\ lastOp = "init"

\* -------------------------------------------------------------- handleDrop
\* A component can be dragged only while it is not placed (App.tsx 546).
HandleDrop(componentType, dropZoneType) ==
    /\ ~componentStates[componentType]
    /\ IF componentType = dropZoneType
       THEN LET cs == [componentStates EXCEPT ![componentType] = TRUE]
                st == RunEffects(cs, isDeploymentInProgress, catAggression,
                                 sabotageTimeoutId, timers, TRUE, TRUE)
            IN  /\ componentStates' = cs
                /\ shakingComponents' = shakingComponents \ {componentType}
                /\ timers' = st.timers
                /\ sabotageTimeoutId' = st.sid
                /\ lastOp' = "dropPlaced"
       ELSE /\ lastOp' = "dropMismatch"
            /\ UNCHANGED <<componentStates, shakingComponents, timers, sabotageTimeoutId>>
    /\ UNCHANGED <<pendingAttacks, isDeploymentInProgress, gameStats, catAggression,
                   isConnected, outbox, narrator, inbox, willFail>>

\* ---------------------------------------------------------- startDeployment
\* (variant: the check of the session in progress left out)
DeploymentAllowedWhileLive(cs, dep) == AllPlaced(cs)

DeploymentAllowed(cs, dep) == AllPlaced(cs) /\ ~dep

\* (variant: Math.min(0.40, ...) left out)
FailureChanceUncapped(aggr, stats, shaking) ==
    Max(MinFailurePct,
        BaseFailurePct + (aggr - 1) * AggressionPenaltyPct
        + stats.failedDeployments * FailureStreakPct
        + Cardinality(shaking) * ShakingPenaltyPct
        - stats.deployments)

\* totalFailureChance, in hundredths.
FailureChance(aggr, stats, shaking) ==
    Max(MinFailurePct,
        Min(MaxFailurePct,
            BaseFailurePct + (aggr - 1) * AggressionPenaltyPct
            + stats.failedDeployments * FailureStreakPct
            + Cardinality(shaking) * ShakingPenaltyPct
            - stats.deployments))

\* sent: the event was written to the connection (lost if the connection
\* drops before the server reads it) rather than buffered for the next connect.
DeploymentRequest(draw) ==
    [forceFailure |-> draw,
     failureChance |-> FailureChance(catAggression, gameStats, shakingComponents),
     sent |-> isConnected]

\* draw: the value of Math.random() < totalFailureChance.  socket.emit on a
\* socket that is not connected buffers the event until it connects.
StartDeployment(draw) ==
    IF ~DeploymentAllowed(componentStates, isDeploymentInProgress)
    THEN /\ lastOp' = (IF ~AllPlaced(componentStates) THEN "deployNotPlaced"
                                                     ELSE "deployInProgress")
         /\ UNCHANGED <<componentStates, shakingComponents, pendingAttacks,
                        isDeploymentInProgress, gameStats, catAggression,
                        sabotageTimeoutId, timers, isConnected, outbox, narrator,
                        inbox, willFail>>
    ELSE LET st == RunEffects(componentStates, TRUE, catAggression,
                              sabotageTimeoutId, timers, TRUE, TRUE)
         IN  /\ isDeploymentInProgress' = TRUE
             /\ outbox' = Append(outbox, DeploymentRequest(draw))
             /\ willFail' = draw
             /\ timers' = Append(st.timers, SessionMark(draw))
             /\ sabotageTimeoutId' = st.sid
             /\ lastOp' = "deployStarted"
             /\ UNCHANGED <<componentStates, shakingComponents, pendingAttacks,
                            gameStats, catAggression, isConnected, narrator, inbox>>

\* ---------------------------------------------------------- resetComponents
\* The state resetComponents leaves, tms being the timers outstanding: the
\* stored handle is set to null without clearTimeout; componentStates is a
\* new object, so both effects run, and find nothing placed.
ResetState(tms) ==
    RunEffects(NonePlaced, isDeploymentInProgress, catAggression, "null",
               Uncur(tms), TRUE, TRUE)

\* (variant: setPendingAttacks(new Set()) left out)
ResetComponentsKeepPending(tms, op) ==
    LET st == ResetState(tms)
    IN  /\ componentStates' = NonePlaced
        /\ shakingComponents' = {}
        /\ pendingAttacks' = pendingAttacks
        /\ timers' = st.timers
        /\ sabotageTimeoutId' = st.sid
        /\ lastOp' = op
        /\ UNCHANGED <<isDeploymentInProgress, gameStats, catAggression, isConnected,
                       outbox, narrator, inbox, willFail>>

ResetComponents(tms, op) ==
    LET st == ResetState(tms)
    IN  /\ componentStates' = NonePlaced
        /\ shakingComponents' = {}
        /\ pendingAttacks' = {}
        /\ timers' = st.timers
        /\ sabotageTimeoutId' = st.sid
        /\ lastOp' = op
        /\ UNCHANGED <<isDeploymentInProgress, gameStats, catAggression, isConnected,
                       outbox, narrator, inbox, willFail>>

\* The Reset button.
ManualReset == ResetComponents(timers, "manualReset")

\* ------------------------------------------------------------- emergencyFix
\* (variant: the fix costs nothing)
FixCostFree(shaking) == 0

FixCost(shaking) == Cardinality(shaking) * FixCostPerComponent

\* (variant: the check of the score left out)
FixRejectedUnpaid(shaking, stats) == shaking = {}

FixRejected(shaking, stats) == shaking = {} \/ stats.score < FixCost(shaking)

\* (variant: one component's cost debited, however many are shaking)
FixStatsFlat(stats, shaking) == [stats EXCEPT !.score = stats.score - FixCostPerComponent]

FixStats(stats, shaking) == [stats EXCEPT !.score = stats.score - FixCost(shaking)]

\* The warnings outstanding when a fix is accepted are marked (history).
MarkFixed(tms) ==
    [i \in DOMAIN tms |-> IF tms[i].kind = "grace" THEN [tms[i] EXCEPT !.fixed = TRUE]
                                                   ELSE tms[i]]

EmergencyFix ==
    IF FixRejected(shakingComponents, gameStats)
    THEN /\ lastOp' = (IF shakingComponents = {} THEN "fixNothing" ELSE "fixTooCostly")
         /\ UNCHANGED <<componentStates, shakingComponents, pendingAttacks,
                        isDeploymentInProgress, gameStats, catAggression,
                        sabotageTimeoutId, timers, isConnected, outbox, narrator,
                        inbox, willFail>>
    ELSE /\ pendingAttacks' = {}
         /\ gameStats' = FixStats(gameStats, shakingComponents)
         /\ shakingComponents' = {}
         /\ timers' = MarkFixed(timers)
         /\ lastOp' = "fixApplied"
         /\ UNCHANGED <<componentStates, isDeploymentInProgress, catAggression,
                        sabotageTimeoutId, isConnected, outbox, narrator, inbox,
                        willFail>>

\* ------------------------------------------------------------- game timer
\* The 1 s interval raises catAggression by one level per 60 s, up to 5.
AggressionTick ==
    /\ catAggression < MaxAggression
    /\ LET st == RunEffects(componentStates, isDeploymentInProgress, catAggression + 1,
                            sabotageTimeoutId, timers, TRUE, TRUE)
       IN  /\ catAggression' = catAggression + 1
           /\ timers' = st.timers
           /\ sabotageTimeoutId' = st.sid
    /\ lastOp' = "aggression"
    /\ UNCHANGED <<componentStates, shakingComponents, pendingAttacks,
                   isDeploymentInProgress, gameStats, isConnected, outbox, narrator,
                   inbox, willFail>>

\* ------------------------------------------------------- performCatSabotage
\* componentsToSabotage for aggression aggr, roll (hundredths) and n placed.
ComponentsToSabotage(aggr, roll, n) ==
    IF aggr >= MultiAttackAggression /\ roll < MultiAttackRoll /\ n >= 2 THEN 2
    ELSE IF aggr >= RampageAggression /\ roll < RampageRoll /\ n >= 3 THEN 3
    ELSE 1

\* (variant: k draws with replacement)
TargetListsWithRepeats(placed, k) == [1..k -> placed]

\* The first k entries of a shuffle of placed: k distinct components in any order.
TargetLists(placed, k) ==
    {q \in [1..k -> placed] : \A a, b \in 1..k : a # b => q[a] # q[b]}

TargetCount(aggr, roll, placed) ==
    Min(ComponentsToSabotage(aggr, roll, Cardinality(placed)), Cardinality(placed))

\* (variant: one sabotage counted for an attack, whatever its targets)
SabotageStatsPerAttack(stats, k) == [stats EXCEPT !.sabotages = stats.sabotages + 1]

SabotageStats(stats, k) == [stats EXCEPT !.sabotages = stats.sabotages + k]

\* A next-attack timer fires.  Its callback reads the componentStates and
\* isDeploymentInProgress of the render that set it (isDeploymentInProgress
\* was false there, something was placed), and performCatSabotage the
\* catAggression of that render.  A timer of scheduleNextSabotage then
\* re-arms with the same closure and stores the new handle.
AttackFire(i, roll, targets) ==
    LET t == timers[i]
        k == TargetCount(t.aggr, roll, t.placed)
        warned == RemoveAt(timers, i) \o [j \in 1..k |-> WarnTimer(targets[j], j - 1)]
    IN  /\ t.kind = "attack"
        /\ CanFire(i)
        /\ targets \in TargetLists(t.placed, k)
        /\ gameStats' = SabotageStats(gameStats, k)
        /\ IF t.first
           THEN /\ timers' = warned
                /\ sabotageTimeoutId' = (IF t.cur THEN "stale" ELSE sabotageTimeoutId)
           ELSE /\ timers' = Append(Uncur(warned), [t EXCEPT !.cur = TRUE, !.ripe = FALSE])
                /\ sabotageTimeoutId' = "live"
        /\ lastOp' = "attack"
        /\ UNCHANGED <<componentStates, shakingComponents, pendingAttacks,
                       isDeploymentInProgress, catAggression, isConnected, outbox,
                       narrator, inbox, willFail>>

\* The timer i fires with some roll and some shuffle.
AttackTimerFires(i) ==
    /\ timers[i].kind = "attack"
    /\ \E roll \in Rolls :
          \E targets \in TargetLists(timers[i].placed,
                                     TargetCount(timers[i].aggr, roll, timers[i].placed)) :
             AttackFire(i, roll, targets)

\* (variant: the slot is marked shaking without becoming pending)
WarnFireShakingOnly(i) ==
    LET t == timers[i]
    IN  /\ t.kind = "warn"
        /\ CanFire(i)
        /\ shakingComponents' = shakingComponents \cup {t.slot}
        /\ pendingAttacks' = pendingAttacks
        /\ timers' = Append(RemoveAt(timers, i), GraceTimer(t.slot))
        /\ lastOp' = "warning"
        /\ UNCHANGED <<componentStates, isDeploymentInProgress, gameStats,
                       catAggression, sabotageTimeoutId, isConnected, outbox, narrator,
                       inbox, willFail>>

\* ---------------------------------------------------- startComponentWarning
\* A staggered startComponentWarning(target) call runs.
WarnFire(i) ==
    LET t == timers[i]
    IN  /\ t.kind = "warn"
        /\ CanFire(i)
        /\ shakingComponents' = shakingComponents \cup {t.slot}
        /\ pendingAttacks' = pendingAttacks \cup {t.slot}
        /\ timers' = Append(RemoveAt(timers, i), GraceTimer(t.slot))
        /\ lastOp' = "warning"
        /\ UNCHANGED <<componentStates, isDeploymentInProgress, gameStats,
                       catAggression, sabotageTimeoutId, isConnected, outbox, narrator,
                       inbox, willFail>>

\* (variant: prev.has(target) not consulted)
KnockedOffUncancelled(slot, pending, cs) == cs[slot]

KnockedOff(slot, pending, cs) == slot \in pending /\ cs[slot]

\* (variant: the marks are cleared only when the component is knocked off)
GraceFireKeepsSurvivor(i) ==
    LET t == timers[i]
        knock == KnockedOff(t.slot, pendingAttacks, componentStates)
        cs == IF knock THEN [componentStates EXCEPT ![t.slot] = FALSE]
                       ELSE componentStates
        st == RunEffects(cs, isDeploymentInProgress, catAggression, sabotageTimeoutId,
                         RemoveAt(timers, i), knock, knock)
    IN  /\ t.kind = "grace"
        /\ CanFire(i)
        /\ componentStates' = cs
        /\ pendingAttacks' = (IF knock THEN pendingAttacks \ {t.slot} ELSE pendingAttacks)
        /\ shakingComponents' = (IF knock THEN shakingComponents \ {t.slot}
                                          ELSE shakingComponents)
        /\ timers' = st.timers
        /\ sabotageTimeoutId' = st.sid
        /\ lastOp' = (IF knock THEN (IF t.fixed THEN "knockedOffFixed" ELSE "knockedOff")
                      ELSE IF t.fixed THEN "graceCancelled" ELSE "graceNoop")
        /\ UNCHANGED <<isDeploymentInProgress, gameStats, catAggression, isConnected,
                       outbox, narrator, inbox, willFail>>

\* The grace period of a warning elapses.
GraceFire(i) ==
    LET t == timers[i]
        knock == KnockedOff(t.slot, pendingAttacks, componentStates)
        cs == IF knock THEN [componentStates EXCEPT ![t.slot] = FALSE]
                       ELSE componentStates
        st == RunEffects(cs, isDeploymentInProgress, catAggression, sabotageTimeoutId,
                         RemoveAt(timers, i), knock, knock)
    IN  /\ t.kind = "grace"
        /\ CanFire(i)
        /\ componentStates' = cs
        /\ pendingAttacks' = pendingAttacks \ {t.slot}
        /\ shakingComponents' = shakingComponents \ {t.slot}
        /\ timers' = st.timers
        /\ sabotageTimeoutId' = st.sid
        /\ lastOp' = (IF knock THEN (IF t.fixed THEN "knockedOffFixed" ELSE "knockedOff")
                      ELSE IF t.fixed THEN "graceCancelled" ELSE "graceNoop")
        /\ UNCHANGED <<isDeploymentInProgress, gameStats, catAggression, isConnected,
                       outbox, narrator, inbox, willFail>>

\* The 2000 ms timer set by the deploymentComplete handler runs resetComponents.
ResetFire(i) ==
    /\ timers[i].kind = "reset"
    /\ CanFire(i)
    /\ ResetComponents(RemoveAt(timers, i), "delayedReset")

\* ------------------------------------------------------------ connection
Connect ==
    /\ ~isConnected
    /\ isConnected' = TRUE
    /\ outbox' = [i \in DOMAIN outbox |-> [outbox[i] EXCEPT !.sent = TRUE]]
    /\ UNCHANGED <<componentStates, shakingComponents, pendingAttacks,
                   isDeploymentInProgress, gameStats, catAggression, sabotageTimeoutId,
                   timers, narrator, inbox, willFail, lastOp>>

\* The connection drops: what is in flight is lost, and a running
\* simulateDeployment keeps emitting on its disconnected socket.  The client's
\* disconnect handler sets isConnected and logs.
Disconnect ==
    /\ isConnected
    /\ isConnected' = FALSE
    /\ outbox' = SelectSeq(outbox, LAMBDA r : ~r.sent)
    /\ inbox' = <<>>
    /\ narrator' = [narrator EXCEPT !.live = FALSE]
    /\ UNCHANGED <<componentStates, shakingComponents, pendingAttacks,
                   isDeploymentInProgress, gameStats, catAggression, sabotageTimeoutId,
                   timers, willFail, lastOp>>

\* ------------------------------------------------ socket.on('deploymentStart')
\* The script simulateDeployment selects: shouldFail is data.forceFailure || false.
ScriptLengths(shouldFail) == IF shouldFail THEN FailureStepCounts ELSE {SuccessStepCount}

\* (variant: willSucceed never cleared)
WillSucceedAlways(shouldFail) == TRUE

WillSucceed(shouldFail) == ~shouldFail

\* The server reads a request: it acknowledges and starts simulateDeployment.
\* Nothing in the handler's try block throws (socket.emit on a socket that has
\* disconnected drops the event), so its catch branch is never taken.
NarratorStart(total) ==
    /\ isConnected
    /\ outbox # <<>>
    /\ ~narrator.active
    /\ total \in ScriptLengths(Head(outbox).forceFailure)
    /\ narrator' = [active |-> TRUE, shouldFail |-> Head(outbox).forceFailure,
                    total |-> total, step |-> 0, live |-> TRUE]
    /\ outbox' = Tail(outbox)
    /\ inbox' = Emit(inbox, TRUE, LogEvent(0, total))
    /\ UNCHANGED <<componentStates, shakingComponents, pendingAttacks,
                   isDeploymentInProgress, gameStats, catAggression, sabotageTimeoutId,
                   timers, isConnected, willFail, lastOp>>

\* One turn of the loop of simulateDeployment: after 800 ms, line i + 1.
NarratorLog ==
    /\ narrator.active
    /\ narrator.step < narrator.total
    /\ inbox = <<>>
    /\ narrator' = [narrator EXCEPT !.step = narrator.step + 1]
    /\ inbox' = Emit(inbox, narrator.live, LogEvent(narrator.step + 1, narrator.total))
    /\ UNCHANGED <<componentStates, shakingComponents, pendingAttacks,
                   isDeploymentInProgress, gameStats, catAggression, sabotageTimeoutId,
                   timers, isConnected, outbox, willFail, lastOp>>

\* (variant: the completion event sent without waiting for the loop)
NarratorCompleteEarly ==
    /\ narrator.active
    /\ inbox = <<>>
    /\ narrator' = IdleNarrator
    /\ inbox' = Emit(inbox, narrator.live,
                     CompleteEvent(WillSucceed(narrator.shouldFail), narrator.total))
    /\ UNCHANGED <<componentStates, shakingComponents, pendingAttacks,
                   isDeploymentInProgress, gameStats, catAggression, sabotageTimeoutId,
                   timers, isConnected, outbox, willFail, lastOp>>

\* After the loop and 500 ms: the completion event, and the run is over.
NarratorComplete ==
    /\ narrator.active
    /\ narrator.step >= narrator.total
    /\ inbox = <<>>
    /\ narrator' = IdleNarrator
    /\ inbox' = Emit(inbox, narrator.live,
                     CompleteEvent(WillSucceed(narrator.shouldFail), narrator.total))
    /\ UNCHANGED <<componentStates, shakingComponents, pendingAttacks,
                   isDeploymentInProgress, gameStats, catAggression, sabotageTimeoutId,
                   timers, isConnected, outbox, willFail, lastOp>>

\* ------------------------------------------------ socket.on('deploymentLog')
DeploymentLog ==
    /\ inbox # <<>>
    /\ Head(inbox).type = "deploymentLog"
    /\ inbox' = Tail(inbox)
    /\ UNCHANGED <<componentStates, shakingComponents, pendingAttacks,
                   isDeploymentInProgress, gameStats, catAggression, sabotageTimeoutId,
                   timers, isConnected, outbox, narrator, willFail, lastOp>>

\* ------------------------------------------- socket.on('deploymentComplete')
\* (variant: the streak bonus left out)
SuccessStatsNoBonus(prev) ==
    [prev EXCEPT !.score = prev.score + SuccessPoints,
                 !.deployments = prev.deployments + 1,
                 !.streak = prev.streak + 1]

SuccessStats(prev) ==
    [prev EXCEPT !.score = prev.score + SuccessPoints
                           + (IF prev.streak >= StreakThreshold THEN StreakBonus ELSE 0),
                 !.deployments = prev.deployments + 1,
                 !.streak = prev.streak + 1]

\* (variant: the score not floored at zero)
FailureStatsUnfloored(prev) ==
    [prev EXCEPT !.failedDeployments = prev.failedDeployments + 1,
                 !.score = prev.score - FailurePenalty,
                 !.streak = 0]

FailureStats(prev) ==
    [prev EXCEPT !.failedDeployments = prev.failedDeployments + 1,
                 !.score = Max(0, prev.score - FailurePenalty),
                 !.streak = 0]

CompleteStats(prev, success) == IF success THEN SuccessStats(prev) ELSE FailureStats(prev)

\* The event of the session's script has arrived: the script has run.
Arrived(tms) == SelectSeq(tms, LAMBDA t : t.kind # "session")

DeploymentComplete ==
    /\ inbox # <<>>
    /\ Head(inbox).type = "deploymentComplete"
    /\ \A i \in DOMAIN timers : timers[i].kind = "session" => CanFire(i)
    /\ LET data == Head(inbox)
           st == RunEffects(componentStates, FALSE, catAggression, sabotageTimeoutId,
                            Append(Arrived(timers), ResetTimer), isDeploymentInProgress,
                            isDeploymentInProgress)
       IN  /\ inbox' = Tail(inbox)
           /\ isDeploymentInProgress' = FALSE
           /\ gameStats' = CompleteStats(gameStats, data.success)
           /\ timers' = st.timers
           /\ sabotageTimeoutId' = st.sid
           /\ lastOp' = (IF data.success THEN "deploySucceeded" ELSE "deployFailed")
    /\ UNCHANGED <<componentStates, shakingComponents, pendingAttacks, catAggression,
                   isConnected, outbox, narrator, willFail>>

\* A whole run of the deploymentStart handler against a socket that stays
\* connected, for the specifications that do not look at the narrator's
\* position: the request is read and the completion event of the selected
\* script is in flight.  No client step reads the narrator's position, and
\* the deploymentLog handler changes nothing but the displayed log.
SimulateDeployment(total) ==
    /\ isConnected
    /\ outbox # <<>>
    /\ ~narrator.active
    /\ total \in ScriptLengths(Head(outbox).forceFailure)
    /\ outbox' = Tail(outbox)
    /\ inbox' = Emit(inbox, TRUE,
                     CompleteEvent(WillSucceed(Head(outbox).forceFailure), total))
    /\ UNCHANGED <<componentStates, shakingComponents, pendingAttacks,
                   isDeploymentInProgress, gameStats, catAggression, sabotageTimeoutId,
                   timers, isConnected, narrator, willFail, lastOp>>

\* ------------------------------------------------------------ the player
\* The Deploy button is disabled unless startDeployment would be accepted
\* (App.tsx 592); the Emergency Fix button is rendered only while something
\* shakes (App.tsx 600); a component is dropped on its own zone or another.
ClickDeploy(draw) ==
    /\ DeploymentAllowed(componentStates, isDeploymentInProgress)
    /\ StartDeployment(draw)

ClickEmergencyFix ==
    /\ shakingComponents # {}
    /\ EmergencyFix

\* ------------------------------------------------------- specifications
\* Sessions accepted so far: the completed ones and the live one.
Sessions(stats, dep) ==
    stats.deployments + stats.failedDeployments + (IF dep THEN 1 ELSE 0)

AllScripts == FailureStepCounts \cup {SuccessStepCount}

\* A timer set with no delay runs before anything else happens.
NoTimerDue == \A i \in DOMAIN timers : Delay(timers[i]) > 0

\* MinAttackMs pass: every timer of a shorter delay has fired by then, and so
\* has the script of a request that the server has read.
Elapse ==
    /\ \E i \in DOMAIN timers : timers[i].kind = "attack" /\ ~timers[i].ripe
    /\ \A i \in DOMAIN timers : timers[i].kind \in {"attack", "session"}
    /\ outbox = <<>> => \A i \in DOMAIN timers : timers[i].kind # "session"
    /\ timers' = [i \in DOMAIN timers |->
                     IF timers[i].kind = "attack" THEN [timers[i] EXCEPT !.ripe = TRUE]
                                                  ELSE timers[i]]
    /\ UNCHANGED <<componentStates, shakingComponents, pendingAttacks,
                   isDeploymentInProgress, gameStats, catAggression, sabotageTimeoutId,
                   isConnected, outbox, narrator, inbox, willFail, lastOp>>

\* Spec: the whole game as the page offers it, the narrator taken as one step.
Within ==
    /\ Sessions(gameStats', isDeploymentInProgress') <= MaxSessions
    /\ gameStats'.sabotages <= MaxSabotages
    /\ Cardinality(AttackTimers(timers')) <= MaxAttackTimers

Next ==
    \/ \E c \in Slots : NoTimerDue /\ HandleDrop(c, c) /\ Within
    \/ \E draw \in BOOLEAN : NoTimerDue /\ ClickDeploy(draw) /\ Within
    \/ NoTimerDue /\ ManualReset /\ Within
    \/ NoTimerDue /\ ClickEmergencyFix
    \/ \E i \in DOMAIN timers : timers[i].ripe /\ AttackTimerFires(i) /\ Within
    \/ Elapse
    \/ \E i \in DOMAIN timers : WarnFire(i)
    \/ \E i \in DOMAIN timers : NoTimerDue /\ GraceFire(i) /\ Within
    \/ \E i \in DOMAIN timers : NoTimerDue /\ ResetFire(i)
    \/ Connect
    \/ \E total \in AllScripts : SimulateDeployment(total)
    \/ NoTimerDue /\ DeploymentComplete /\ Within

Spec == Init /\ [][Next]_vars

\* PipelineSpec: the same game, the player filling the pipeline from left to
\* right, under one budget of sessions and sabotaged components.
FillsNext(c) ==
    \A d \in Slots :
        ((d = "build" /\ c # "build") \/ (d = "test" /\ c = "deploy")) => componentStates[d]

WithinEvents ==
    /\ Sessions(gameStats', isDeploymentInProgress') + gameStats'.sabotages <= MaxEvents
    /\ Cardinality(AttackTimers(timers')) <= MaxAttackTimers

PipelineNext ==
    \/ \E c \in Slots : FillsNext(c) /\ HandleDrop(c, c) /\ WithinEvents
    \/ \E draw \in BOOLEAN : ClickDeploy(draw) /\ WithinEvents
    \/ ManualReset /\ WithinEvents
    \/ ClickEmergencyFix
    \/ \E i \in DOMAIN timers : AttackTimerFires(i) /\ WithinEvents
    \/ \E i \in DOMAIN timers : WarnFire(i)
    \/ \E i \in DOMAIN timers : GraceFire(i) /\ WithinEvents
    \/ \E i \in DOMAIN timers : ResetFire(i)
    \/ Connect
    \/ \E total \in AllScripts : SimulateDeployment(total)
    \/ DeploymentComplete /\ WithinEvents

PipelineSpec == Init /\ [][PipelineNext]_vars

\* The browser runs a timer once its delay has passed: the staggered
\* warnings and the 2000 ms reset fire.
PipelineFairness ==
    /\ WF_vars(\E i \in DOMAIN timers : WarnFire(i))
    /\ WF_vars(\E i \in DOMAIN timers : ResetFire(i))

FairPipelineSpec == Init /\ [][PipelineNext]_vars /\ PipelineFairness

\* The 5000 ms grace timers fire as well.
WarningFairness ==
    /\ PipelineFairness
    /\ WF_vars(\E i \in DOMAIN timers : GraceFire(i) /\ WithinEvents)

FairWarningSpec == Init /\ [][PipelineNext]_vars /\ WarningFairness

\* SessionSpec: the deployment session end to end, the narrator line by
\* line, the connection coming and going, startDeployment called in any
\* state, the pipeline filled from left to right with drops on any zone; no
\* attack timer fires.
WithinRuns == Sessions(gameStats', isDeploymentInProgress') <= MaxRuns

SessionNext ==
    \/ \E c, z \in Slots : FillsNext(c) /\ HandleDrop(c, z)
    \/ \E draw \in BOOLEAN : StartDeployment(draw) /\ WithinRuns
    \/ \E i \in DOMAIN timers : ResetFire(i)
    \/ Connect
    \/ Disconnect
    \/ \E total \in AllScripts : NarratorStart(total)
    \/ NarratorLog
    \/ NarratorComplete
    \/ DeploymentLog
    \/ DeploymentComplete

SessionSpec == Init /\ [][SessionNext]_vars

\* The server's timers and event loop run, socket.io delivers what is in
\* flight and reconnects by itself, the client's 2000 ms timer fires.
\* Nothing obliges the player to act or the connection to drop.
SessionFairness ==
    /\ WF_vars(\E total \in AllScripts : NarratorStart(total))
    /\ WF_vars(NarratorLog)
    /\ WF_vars(NarratorComplete)
    /\ WF_vars(DeploymentLog)
    /\ WF_vars(DeploymentComplete)
    /\ WF_vars(\E i \in DOMAIN timers : ResetFire(i))
    /\ WF_vars(Connect)

FairSessionSpec == Init /\ [][SessionNext]_vars /\ SessionFairness

\* ScoreSpec: sessions one after the other on a connection that stays up,
\* the pipeline filled from left to right; no attack timer fires.
WithinDeployments == Sessions(gameStats', isDeploymentInProgress') <= MaxDeployments

ScoreNext ==
    \/ \E c \in Slots : FillsNext(c) /\ HandleDrop(c, c)
    \/ \E draw \in BOOLEAN : ClickDeploy(draw) /\ WithinDeployments
    \/ \E i \in DOMAIN timers : ResetFire(i)
    \/ Connect
    \/ \E total \in AllScripts : SimulateDeployment(total)
    \/ DeploymentComplete

ScoreSpec == Init /\ [][ScoreNext]_vars

\* The game with the cat growing more aggressive: the pipeline is filled in
\* order, the game timer raises catAggression, attacks and deployments are
\* counted against one budget.  emergencyFix is called in any state, so that
\* its own guards decide.
WithinCat ==
    /\ Sessions(gameStats', isDeploymentInProgress') + gameStats'.sabotages <= MaxCatEvents
    /\ Cardinality(AttackTimers(timers')) <= MaxCatTimers

CatNext ==
    \/ \E c \in Slots : FillsNext(c) /\ HandleDrop(c, c) /\ WithinCat
    \/ AggressionTick /\ WithinCat
    \/ \E draw \in BOOLEAN : ClickDeploy(draw) /\ WithinCat
    \/ EmergencyFix
    \/ \E i \in DOMAIN timers : AttackTimerFires(i) /\ WithinCat
    \/ \E i \in DOMAIN timers : WarnFire(i)
    \/ \E i \in DOMAIN timers : GraceFire(i) /\ WithinCat
    \/ \E i \in DOMAIN timers : ResetFire(i)
    \/ Connect
    \/ \E total \in AllScripts : SimulateDeployment(total)
    \/ DeploymentComplete /\ WithinCat

CatSpec == Init /\ [][CatNext]_vars

\* ------------------------------------------------------------- claims
\* C1: while a deployment session is live (from the accepted startDeployment
\* to the handling of deploymentComplete), no slot's filled flag changes.
C1_SlotsFrozenWhileLive ==
    [][isDeploymentInProgress => componentStates' = componentStates]_vars

\* C1, reached: the Reset button has emptied the pipeline of a live session.
C1_ResetWhileLive ==
    /\ isDeploymentInProgress
    /\ lastOp = "manualReset"
    /\ componentStates = NonePlaced

\* C2: at most one next-attack timer is outstanding in every reachable state.
C2_OneAttackTimer == Cardinality(AttackTimers(timers)) <= 1

\* C2, reached: two next-attack timers outstanding, one of them the stored handle.
C2_TwoAttackTimers ==
    /\ Cardinality(AttackTimers(timers)) = 2
    /\ sabotageTimeoutId = "live"

\* C3: when an emergency fix is accepted after a warning on a slot started
\* and before its grace period elapsed, the expiry of that warning leaves the
\* slot filled.
C3_FixedWarningExpiresHarmless ==
    [][\A i \in DOMAIN timers :
          (timers[i].kind = "grace" /\ timers[i].fixed /\ GraceFire(i))
              => componentStates' = componentStates]_vars

\* C3, reached: the expiry of a warning that a fix had cancelled has emptied a slot.
C3_KnockedOffAfterFix ==
    /\ lastOp = "knockedOffFixed"
    /\ \E s \in Slots : ~componentStates[s]

\* C4: startDeployment with fewer than three slots filled, or with a session
\* live, emits no request and changes no state; a request is emitted and a
\* session goes live only when all three slots are filled and none is live.
C4_StartGuard ==
    [][/\ Len(outbox') > Len(outbox)
            => (\A s \in Slots : componentStates[s]) /\ ~isDeploymentInProgress
       /\ (~isDeploymentInProgress /\ isDeploymentInProgress')
            => (\A s \in Slots : componentStates[s]) /\ Len(outbox') = Len(outbox) + 1
       /\ (lastOp' \in {"deployNotPlaced", "deployInProgress"} /\ lastOp' # lastOp)
            => /\ (\E s \in Slots : ~componentStates[s]) \/ isDeploymentInProgress
               /\ UNCHANGED <<componentStates, shakingComponents, pendingAttacks,
                              isDeploymentInProgress, gameStats, catAggression,
                              sabotageTimeoutId, timers, isConnected, outbox, narrator,
                              inbox, willFail>>]_vars

\* C4, reached: startDeployment was called with a session live and rejected.
C4_RejectedWhileLive ==
    /\ lastOp = "deployInProgress"
    /\ isDeploymentInProgress
    /\ \A s \in Slots : componentStates[s]

\* C5: score, deployments, failedDeployments, sabotages and streak are never negative.
C5_StatsNonNegative ==
    /\ gameStats.score >= 0
    /\ gameStats.deployments >= 0
    /\ gameStats.failedDeployments >= 0
    /\ gameStats.sabotages >= 0
    /\ gameStats.streak >= 0

\* C5, reached: an emergency fix has been paid for out of the score of one
\* successful deployment.
C5_FixPaid ==
    /\ lastOp = "fixApplied"
    /\ gameStats.score = SuccessPoints - FixCostPerComponent
    /\ gameStats.sabotages > 0

\* C6: every live session eventually ends, also when the connection has
\* dropped during it (stated for the runs in which the connection comes back
\* and then stays up).
C6_SessionEnds ==
    <>[]isConnected => (isDeploymentInProgress ~> ~isDeploymentInProgress)

\* C6, reached: a session is live, the client is connected, and no request,
\* script or event of it is left anywhere.
C6_Stranded ==
    /\ isDeploymentInProgress
    /\ isConnected
    /\ outbox = <<>>
    /\ ~narrator.active
    /\ inbox = <<>>

\* What every step must satisfy for the narrator's emissions to be in order.
C7_NarratorStep ==
    /\ (narrator.active /\ narrator'.active)
         => /\ narrator'.total = narrator.total
            /\ narrator'.step \in {narrator.step, narrator.step + 1}
    /\ (narrator.active /\ narrator'.active /\ narrator'.step # narrator.step)
         => /\ narrator'.step <= narrator.total
            /\ narrator.live
                 => inbox' = Append(inbox, [type |-> "deploymentLog",
                                            step |-> narrator.step + 1,
                                            totalSteps |-> narrator.total,
                                            success |-> FALSE])
    /\ (narrator.active /\ ~narrator'.active)
         => /\ narrator.step = narrator.total
            /\ narrator.live
                 => /\ Len(inbox') = Len(inbox) + 1
                    /\ inbox'[Len(inbox')].type = "deploymentComplete"
                    /\ inbox'[Len(inbox')].totalSteps = narrator.total
    /\ (~narrator.active /\ narrator'.active)
         => /\ narrator'.step = 0
            /\ inbox' = Append(inbox, [type |-> "deploymentLog", step |-> 0,
                                       totalSteps |-> narrator'.total,
                                       success |-> FALSE])
    /\ Len(inbox') > Len(inbox) => narrator.active \/ narrator'.active
    /\ Cardinality({k \in DOMAIN inbox' : inbox'[k].type = "deploymentComplete"}) <= 1
    /\ \A k \in DOMAIN inbox' :
          inbox'[k].type = "deploymentComplete" => k = Len(inbox')

\* C7: the narrator emits the log lines of a script in step order 1 .. totalSteps
\* and then exactly one deploymentComplete: a run ends only by emitting it
\* after the last line, nothing is emitted outside a run, and every run ends.
C7_ScriptInOrder ==
    /\ narrator.active ~> ~narrator.active
    /\ [][C7_NarratorStep]_vars

\* C7, reached: the completion event of an 11-step script is in flight, the
\* run being over.
C7_CompletionInFlight ==
    /\ inbox # <<>>
    /\ inbox[Len(inbox)].type = "deploymentComplete"
    /\ inbox[Len(inbox)].totalSteps = 11
    /\ ~narrator.active

\* C8: the completion event's success is the negation of the request's
\* forceFailure; the script has 9 steps when it is false and 4, 8 or 11 when
\* it is true; the client's statistics move as the drawn willFail says.
C8_OutcomeFollowsDraw ==
    [][/\ \A k \in DOMAIN outbox' : outbox'[k].forceFailure = willFail'
       /\ narrator'.active
            => /\ narrator'.shouldFail = willFail'
               /\ narrator'.total \in (IF willFail' THEN {4, 8, 11} ELSE {9})
       /\ \A k \in DOMAIN inbox' :
             inbox'[k].type = "deploymentComplete"
                => /\ inbox'[k].success = ~willFail'
                   /\ inbox'[k].totalSteps \in (IF willFail' THEN {4, 8, 11} ELSE {9})
       /\ gameStats' # gameStats
            => IF willFail
               THEN /\ gameStats'.failedDeployments = gameStats.failedDeployments + 1
                    /\ gameStats'.deployments = gameStats.deployments
               ELSE /\ gameStats'.deployments = gameStats.deployments + 1
                    /\ gameStats'.failedDeployments = gameStats.failedDeployments]_vars

\* C8, reached: a session whose draw was a failure has been counted as failed.
C8_DrawnFailureCounted ==
    /\ lastOp = "deployFailed"
    /\ willFail
    /\ gameStats.failedDeployments = 1
    /\ gameStats.deployments = 0

\* C9: handling a successful completion ends the session, adds 100 to the
\* score, and 50 more when the streak before it was at least 3, adds one to
\* deployments and to streak, and leaves failedDeployments and sabotages.
C9_SuccessCompletion ==
    [][((IF inbox = <<>> THEN FALSE
         ELSE Head(inbox).type = "deploymentComplete" /\ Head(inbox).success)
        /\ inbox' = Tail(inbox))
          => /\ ~isDeploymentInProgress'
             /\ gameStats'.score = gameStats.score + 100
                                    + (IF gameStats.streak >= 3 THEN 50 ELSE 0)
             /\ gameStats'.deployments = gameStats.deployments + 1
             /\ gameStats'.streak = gameStats.streak + 1
             /\ gameStats'.failedDeployments = gameStats.failedDeployments
             /\ gameStats'.sabotages = gameStats.sabotages]_vars

\* C9, reached: a fourth success in a row has earned the streak bonus.
C9_BonusEarned ==
    /\ lastOp = "deploySucceeded"
    /\ gameStats.streak = 4
    /\ gameStats.score = 450
    /\ ~isDeploymentInProgress

\* C10: handling a failed completion ends the session, adds one to
\* failedDeployments, takes 25 from the score without going below 0, clears
\* the streak, and leaves deployments and sabotages.
C10_FailureCompletion ==
    [][((IF inbox = <<>> THEN FALSE
         ELSE Head(inbox).type = "deploymentComplete" /\ ~Head(inbox).success)
        /\ inbox' = Tail(inbox))
          => /\ ~isDeploymentInProgress'
             /\ gameStats'.failedDeployments = gameStats.failedDeployments + 1
             /\ gameStats'.score = (IF gameStats.score >= 25 THEN gameStats.score - 25
                                                             ELSE 0)
             /\ gameStats'.streak = 0
             /\ gameStats'.deployments = gameStats.deployments
             /\ gameStats'.sabotages = gameStats.sabotages]_vars

\* C10, reached: a failure after one success has cost 25 points and the streak.
C10_PenaltyPaid ==
    /\ lastOp = "deployFailed"
    /\ gameStats.score = 75
    /\ gameStats.streak = 0
    /\ gameStats.deployments = 1
    /\ gameStats.failedDeployments = 1

\* The number of 2000 ms reset timers outstanding.
C11_ResetsDue(tms) == Cardinality({i \in DOMAIN tms : tms[i].kind = "reset"})

\* What the step in which a 2000 ms reset timer fires must satisfy.
C11_ResetStep ==
    C11_ResetsDue(timers') < C11_ResetsDue(timers)
        => /\ \A s \in Slots : ~componentStates'[s]
           /\ pendingAttacks' = {}
           /\ shakingComponents' = {}
           /\ gameStats' = gameStats

\* C11: every processed deploymentComplete is eventually followed by the
\* delayed reset, after which all three slots are unfilled and PendingAttack
\* and ShakingSet are empty; the reset step leaves GameStats unchanged.
C11_DelayedReset ==
    /\ (C11_ResetsDue(timers) > 0) ~> (lastOp = "delayedReset")
    /\ [][C11_ResetStep]_vars

\* C11, reached: the delayed reset has run after a successful deployment
\* while a warning was in its grace period.
C11_ResetDuringWarning ==
    /\ lastOp = "delayedReset"
    /\ \A s \in Slots : ~componentStates[s]
    /\ pendingAttacks = {}
    /\ gameStats.deployments = 1
    /\ \E i \in DOMAIN timers : timers[i].kind = "grace"

\* The staggered warnings an attack has just scheduled.
C12_Warnings(tms) == {<<tms[i].slot, tms[i].idx>> : i \in {j \in DOMAIN tms : tms[j].kind = "warn"}}

\* An attack at aggression 5 on three filled slots whose roll is below 0.10.
C12_RampageAttack(i) ==
    /\ timers[i].kind = "attack"
    /\ catAggression >= RampageAggression
    /\ timers[i].aggr >= RampageAggression
    /\ AllPlaced(componentStates)
    /\ timers[i].placed = Slots
    /\ \A j \in DOMAIN timers : timers[j].kind # "warn"
    /\ \E roll \in {r \in Rolls : r < RampageRoll} :
          \E targets \in TargetLists(Slots, TargetCount(timers[i].aggr, roll, Slots)) :
             AttackFire(i, roll, targets)

\* C12: an attack at aggression 5 or more, with all three slots filled and an
\* aggression roll below 0.10, warns all three slots, at offsets 0, 1500 and
\* 3000 ms, and adds 3 to sabotages at launch.
C12_Rampage ==
    [][\A i \in DOMAIN timers :
          C12_RampageAttack(i)
              => /\ gameStats'.sabotages = gameStats.sabotages + 3
                 /\ {w[1] : w \in C12_Warnings(timers')} = Slots
                 /\ {w[2] : w \in C12_Warnings(timers')} = {0, 1, 2}]_vars

\* C12, reached: an attack at aggression 5 on a full pipeline has counted
\* two sabotages.
C12_TwoTargetsAtFive ==
    /\ lastOp = "attack"
    /\ catAggression = MaxAggression
    /\ AllPlaced(componentStates)
    /\ gameStats.sabotages = 2
    /\ Cardinality(C12_Warnings(timers)) = 2

\* C13: while a deployment session is live no attack is launched:
\* performCatSabotage is not invoked (sabotages does not grow), whichever
\* attack timer fires.
C13_NoAttackWhileLive ==
    [][isDeploymentInProgress => gameStats'.sabotages = gameStats.sabotages]_vars

\* C13, reached: an attack has been launched while a session is live.
C13_AttackWhileLive ==
    /\ lastOp = "attack"
    /\ isDeploymentInProgress
    /\ gameStats.sabotages > 0

\* C14: an emergency fix requested when PendingAttack is empty, or when the
\* score is lower than the fix cost, is rejected and changes no state: score,
\* the other GameStats counters, slots, PendingAttack and ShakingSet.
C14_RejectedFixChangesNothing ==
    [][(/\ EmergencyFix
        /\ \/ pendingAttacks = {}
           \/ gameStats.score < Cardinality(shakingComponents) * FixCostPerComponent)
          => /\ lastOp' \in {"fixNothing", "fixTooCostly"}
             /\ UNCHANGED <<componentStates, shakingComponents, pendingAttacks,
                            gameStats, timers>>]_vars

\* C14, reached: a fix was rejected for its cost while an attack is pending.
C14_FixTooCostly ==
    /\ lastOp = "fixTooCostly"
    /\ pendingAttacks # {}
    /\ gameStats.score < Cardinality(shakingComponents) * FixCostPerComponent

\* C15: in every steady state every slot in PendingAttack is also in
\* ShakingSet.
C15_PendingIsShaking == pendingAttacks \subseteq shakingComponents

\* C15, reached: a drop has filled a slot under warning, which is still
\* pending and no longer shaking.
C15_PendingNotShaking ==
    /\ lastOp = "dropPlaced"
    /\ \E s \in pendingAttacks : s \notin shakingComponents /\ componentStates[s]

\* clamp(30000 - (a - 1) * 4000 + r, min = 15000), written out.
C16_Clamped(a, r) ==
    IF 30000 - (a - 1) * 4000 + r < 15000 THEN 15000 ELSE 30000 - (a - 1) * 4000 + r

\* C16: for every aggression 1..5 and random variation in [0, 10000), the
\* delay of an attack timer, set by scheduleFirstAttack or by
\* scheduleNextSabotage, is max(15000, 30000 - (a - 1) * 4000 + r) and so at
\* least 15000 ms.
C16_AttackDelay ==
    \A i \in DOMAIN timers :
        timers[i].kind = "attack"
            => /\ timers[i].aggr \in 1..5
               /\ \A r \in Variations :
                     /\ AttackInterval(timers[i], r) = C16_Clamped(timers[i].aggr, r)
                     /\ AttackInterval(timers[i], r) >= 15000
                     /\ Delay(timers[i]) <= AttackInterval(timers[i], r)

\* C16, reached: at aggression 5 both scheduling paths have a timer
\* outstanding, whose delay the floor decides.
C16_FlooredDelay ==
    /\ \E i \in DOMAIN timers :
          timers[i].kind = "attack" /\ timers[i].first /\ timers[i].aggr = 5
    /\ \E i \in DOMAIN timers :
          timers[i].kind = "attack" /\ ~timers[i].first /\ timers[i].aggr = 5

\* 0.15 + (a - 1) * 0.05 + f * 0.02 + sh * 0.10 - d * 0.01, in hundredths.
C17_Raw(a, f, sh, d) == 15 + (a - 1) * 5 + f * 2 + sh * 10 - d

\* clamp(x, 0.05, 0.40), in hundredths.
C17_Clamp(x) == IF x < 5 THEN 5 ELSE IF x > 40 THEN 40 ELSE x

\* C17: for every accepted deployment the failureChance transmitted with the
\* request is clamp(0.15 + (aggression - 1) * 0.05 + failedDeployments * 0.02
\* + |ShakingSet| * 0.10 - deployments * 0.01, 0.05, 0.40), evaluated on the
\* state at request time, and lies in [0.05, 0.40].
C17_TransmittedChance ==
    [][(~isDeploymentInProgress /\ isDeploymentInProgress')
          => /\ Len(outbox') = Len(outbox) + 1
             /\ outbox'[Len(outbox')].failureChance
                   = C17_Clamp(C17_Raw(catAggression, gameStats.failedDeployments,
                                       Cardinality(shakingComponents),
                                       gameStats.deployments))
             /\ outbox'[Len(outbox')].failureChance \in 5..40]_vars

\* C17, reached: a deployment was requested at aggression 5 with a slot
\* shaking, and the chance sent is the cap.
C17_CappedChanceSent ==
    /\ lastOp = "deployStarted"
    /\ catAggression = 5
    /\ shakingComponents # {}
    /\ outbox # <<>>
    /\ outbox[Len(outbox)].failureChance = 40

\* The slots an attack launched in this step has scheduled warnings for.
C18_NewlyTargeted ==
    {w[1] : w \in C12_Warnings(timers') \ C12_Warnings(timers)}

\* C18: an attack is launched only if, at the moment its timer fires, at
\* least one slot is filled and no session is live, and it targets only
\* slots filled at that moment.
C18_TargetsFilledAtFire ==
    [][gameStats'.sabotages > gameStats.sabotages
          => /\ PlacedSet(componentStates) # {}
             /\ ~isDeploymentInProgress
             /\ C18_NewlyTargeted \subseteq PlacedSet(componentStates)]_vars

\* C18, reached: an attack has been launched on an empty pipeline.
C18_AttackOnEmptyPipeline ==
    /\ lastOp = "attack"
    /\ PlacedSet(componentStates) = {}
    /\ ~isDeploymentInProgress
    /\ \E i \in DOMAIN timers : timers[i].kind = "warn"

\* What the expiry of the grace period of a warning on slot s must do.
C19_Expiry(s) ==
    /\ ~componentStates'[s] <=> ~componentStates[s] \/ s \in pendingAttacks
    /\ \A o \in Slots \ {s} : componentStates'[o] = componentStates[o]
    /\ s \notin pendingAttacks'
    /\ s \notin shakingComponents'

\* C19: when the grace period of a warning on slot s expires, s becomes
\* unfilled if and only if s is in PendingAttack and filled; no other slot
\* changes; an already unfilled s stays unfilled without error; afterwards s
\* is in neither PendingAttack nor ShakingSet.
C19_GraceExpiry ==
    [][\A i \in DOMAIN timers :
          (timers[i].kind = "grace" /\ GraceFire(i)) => C19_Expiry(timers[i].slot)]_vars

\* C19, reached: a grace period expired after an emergency fix and left the
\* slot filled.
C19_SurvivedExpiry ==
    /\ lastOp = "graceCancelled"
    /\ gameStats.score = 75
    /\ shakingComponents = {}
    /\ \E s \in Slots : componentStates[s]

\* C20: in every state where PendingAttack is not empty and the score covers
\* the fix cost (25 for each pending slot, and so for each shaking one), an
\* emergencyFix request is accepted and empties PendingAttack.
C20_FixAvailableWhilePending ==
    [][(/\ pendingAttacks # {}
        /\ gameStats.score >= Cardinality(pendingAttacks) * FixCostPerComponent
        /\ EmergencyFix)
          => pendingAttacks' = {}]_vars

\* C20, reached: a fix was refused although an attack is pending and the
\* score would pay for it.
C20_FixRefusedWhilePending ==
    /\ lastOp = "fixNothing"
    /\ pendingAttacks # {}
    /\ gameStats.score >= Cardinality(pendingAttacks) * FixCostPerComponent

\* C21: in every steady state where at least one slot is filled and no
\* session is live, a next-attack timer is outstanding: the one whose handle
\* is stored, set by scheduleNextSabotage, which re-arms itself when it fires.
C21_Armed ==
    (PlacedSet(componentStates) # {} /\ ~isDeploymentInProgress)
        => \E i \in DOMAIN timers :
              /\ timers[i].kind = "attack"
              /\ ~timers[i].first
              /\ timers[i].cur
              /\ sabotageTimeoutId = "live"

\* C21, reached: a knock-off has left a slot filled and the timer set after
\* it closes over the slots as they are now.
C21_ArmedAfterKnockOff ==
    /\ lastOp = "knockedOff"
    /\ PlacedSet(componentStates) # {}
    /\ ~isDeploymentInProgress
    /\ \E i \in DOMAIN timers :
          /\ timers[i].kind = "attack"
          /\ timers[i].cur
          /\ timers[i].placed = PlacedSet(componentStates)

\* The number of staggered warnings scheduled and not yet started.
C22_WarningsDue(tms) == Cardinality({i \in DOMAIN tms : tms[i].kind = "warn"})

\* C22: sabotages grows at attack launch by exactly the number of targets
\* selected for that attack (the warnings the launch schedules) and is
\* changed by no other operation.
C22_SabotagesCountTargets ==
    [][IF C22_WarningsDue(timers') > C22_WarningsDue(timers)
       THEN /\ lastOp' = "attack"
            /\ gameStats'.sabotages
                  = gameStats.sabotages + C22_WarningsDue(timers') - C22_WarningsDue(timers)
       ELSE gameStats'.sabotages = gameStats.sabotages]_vars

\* C22, reached: an attack on two targets has counted two sabotages.
C22_TwoTargetsCounted ==
    /\ lastOp = "attack"
    /\ catAggression = MultiAttackAggression
    /\ gameStats.sabotages = 2
    /\ C22_WarningsDue(timers) = 2

\* C23: an accepted emergency fix is one step that empties PendingAttack and
\* ShakingSet and debits score by exactly 25 times the number of slots in
\* ShakingSet before the step; it is accepted only when score is at least
\* that cost; it changes no slot's filled flag and no other GameStats counter.
C23_AcceptedFix ==
    [][(EmergencyFix /\ lastOp' = "fixApplied")
          => /\ pendingAttacks' = {}
             /\ shakingComponents' = {}
             /\ gameStats.score >= 25 * Cardinality(shakingComponents)
             /\ gameStats' = [gameStats EXCEPT
                                !.score = gameStats.score - 25 * Cardinality(shakingComponents)]
             /\ componentStates' = componentStates]_vars

\* C23, reached: a fix of two shaking slots has been paid out of 100 points.
C23_TwoSlotsFixed ==
    /\ lastOp = "fixApplied"
    /\ gameStats.score = 50
    /\ gameStats.sabotages = 2
    /\ pendingAttacks = {}
    /\ shakingComponents = {}

\* C24: every slot that enters the Warned state (PendingAttack and
\* ShakingSet) eventually leaves both sets, whether or not it was cancelled,
\* reset or re-filled meanwhile.
C24_WarningResolves ==
    \A s \in Slots :
        (s \in pendingAttacks \/ s \in shakingComponents)
            ~> (s \notin pendingAttacks /\ s \notin shakingComponents)

\* C24, reached: the grace period of a cancelled warning has expired, the
\* slot survived and nothing is pending or shaking.
C24_Survived ==
    /\ lastOp = "graceCancelled"
    /\ pendingAttacks = {}
    /\ shakingComponents = {}
    /\ gameStats.sabotages = 1
    /\ \A i \in DOMAIN timers : timers[i].kind # "grace"

\* The warnings appended to the timers by the attack launched in this step.
C25_Launched == {j \in Len(timers)..Len(timers') : timers'[j].kind = "warn"}

\* The launch by timer i selected distinct targets among the slots passed in,
\* at least one, and exactly one at low aggression or with one slot filled.
C25_Selection(i) ==
    LET targets == {timers'[j].slot : j \in C25_Launched}
        k == Cardinality(C25_Launched)
        n == Cardinality(timers[i].placed)
    IN  /\ Cardinality(targets) = k
        /\ targets \subseteq timers[i].placed
        /\ k >= 1
        /\ k <= n
        /\ (timers[i].aggr < 3 \/ n < 2) => k = 1

\* C25: for every attack launch, whatever the aggression, the roll and the
\* filled slots, the selected targets are pairwise distinct, their number is
\* between 1 and the number of slots passed in as filled, and exactly one
\* slot is targeted whenever aggression < 3 or fewer than two slots are filled.
C25_TargetSelection ==
    [][\A i \in DOMAIN timers : AttackTimerFires(i) => C25_Selection(i)]_vars

\* C25, reached: at aggression 4, with two slots filled, an attack has
\* scheduled warnings for both.
C25_BothFilledTargeted ==
    /\ lastOp = "attack"
    /\ catAggression = 4
    /\ Cardinality(PlacedSet(componentStates)) = 2
    /\ {timers[i].slot : i \in {j \in DOMAIN timers : timers[j].kind = "warn"}}
          = PlacedSet(componentStates)

\* C26: between two accepted startDeployment requests the slots have been
\* reset: no deployment is accepted in the window between a completion event
\* and its delayed 2000 ms reset, while that reset is still outstanding.
C26_OneDeploymentPerFilling ==
    [][(~isDeploymentInProgress /\ isDeploymentInProgress')
          => \A i \in DOMAIN timers : timers[i].kind # "reset"]_vars

\* C26, reached: a second deployment was accepted on the same filling, the
\* reset of the first still to come.
C26_SecondDeploymentBeforeReset ==
    /\ lastOp = "deployStarted"
    /\ isDeploymentInProgress
    /\ gameStats.deployments + gameStats.failedDeployments = 1
    /\ \E i \in DOMAIN timers : timers[i].kind = "reset"

\* C27: in every steady state ShakingSet is a subset of PendingAttack: a
\* slot is never marked shaking without also being pending.
C27_ShakingIsPending == shakingComponents \subseteq pendingAttacks

\* C27, reached: both targets of an attack have been warned, and the two
\* slots are shaking and pending.
C27_TwoShakingAndPending ==
    /\ lastOp = "warning"
    /\ Cardinality(shakingComponents) = 2
    /\ shakingComponents \subseteq pendingAttacks

====
